---- MODULE Spec2Model ----
(***************************************************************************)
(* Model of GameEngine (src/src/GameEngine.py): the attacker/defender game *)
(* played on a directed network.  One game is the loop of runGame; each    *)
(* iteration of its inner loop (one queued message) is one step.           *)
(*                                                                         *)
(* Rewards are stored in HALF units (a stored value v stands for v/2), so  *)
(* that the float divisions -attackerReward / 2 and -defenderReward / 2 of *)
(* calculateScore are exact.                                               *)
(***************************************************************************)
EXTENDS Integers, Sequences, FiniteSets, TLC

VARIABLES network, nodes, graph, colorMap, infectedNodes, quarantinedNodes,
          reachableNodes, roundNumber, lastAttackerScore, organizedQueues,
          attackIndex, attackMessage, pc, qi, mi, loopLocals,
          attackerSamples, defenderSamples, call

(***************************************************************************)
(* network           the lines of the network file (never changes)         *)
(* nodes             graph.nodes(), in insertion order                     *)
(* graph             the edges of the DiGraph                              *)
(* colorMap          colour of every node (its latest suspicion label)     *)
(* infectedNodes, quarantinedNodes, reachableNodes   the lists of the      *)
(*                   engine; reachableNodes holds a 0/1 flag per node      *)
(* roundNumber, lastAttackerScore, attackMessage     fields of the engine  *)
(* organizedQueues, attackIndex   locals of runGame for the round          *)
(* pc                where control is: "constructed" (after __init__),     *)
(*                   "loop" (the test of the while loop), "messages" (in   *)
(*                   the inner loops, at queue qi, message mi), "display"  *)
(*                   (end of the loop body), "finished" (runGame has       *)
(*                   returned), "crashed" (an exception escaped)           *)
(* loopLocals        None, or what the latest iteration of the inner loop  *)
(*                   did: its message, whether it was delivered, skipped,  *)
(*                   the calls of Defender.inspect it made, its label and  *)
(*                   the two rewards                                       *)
(* attackerSamples   the addTrainingPoint calls made on the Attacker in    *)
(*                   the round under way, in order                         *)
(* defenderSamples   the addTrainingPoint calls made on the Defender by    *)
(*                   the latest iteration of the inner loop                *)
(* call              None during a game; when one method of the engine is  *)
(*                   examined on its own, its arguments and locals         *)
(***************************************************************************)
vars == <<network, nodes, graph, colorMap, infectedNodes, quarantinedNodes,
          reachableNodes, roundNumber, lastAttackerScore, organizedQueues,
          attackIndex, attackMessage, pc, qi, mi, loopLocals,
          attackerSamples, defenderSamples, call>>

(***************************************************************************)
(* Bounds of the model.                                                    *)
(***************************************************************************)
\* most background messages drawn in one round (the program draws up to
\* MAX_BACKGROUND_TRAFFIC_MESSAGES)
MaxBackground == 1
\* rounds of one game that are explored
MaxRounds == 2

(***************************************************************************)
(* Program constants.                                                      *)
(***************************************************************************)
\* 0-based indices into a line of the network file
NETWORK_SOURCE_IP_INDEX == 0
NETWORK_SINK_IP_INDEX == 1

NO_SUSPICION_LABEL == "NONE"
LOW_SUSPICION_LABEL == "LOW"
MEDIUM_SUSPICION_LABEL == "MEDIUM"
HIGH_SUSPICION_LABEL == "HIGH"
Labels == {NO_SUSPICION_LABEL, LOW_SUSPICION_LABEL, MEDIUM_SUSPICION_LABEL,
           HIGH_SUSPICION_LABEL}

COLOR_MAP == [l \in Labels |->
                CASE l = NO_SUSPICION_LABEL -> "blue"
                  [] l = LOW_SUSPICION_LABEL -> "yellow"
                  [] l = MEDIUM_SUSPICION_LABEL -> "orange"
                  [] l = HIGH_SUSPICION_LABEL -> "red"]

\* Python's None, and a present value, for optional results
None == <<>>
Some(v) == <<v>>

\* a reward of n, and a reward of n / 2 (Python true division), in half units
Whole(n) == 2 * n
HalfOf(n) == n

(***************************************************************************)
(* Network definitions the game is played on: the lines of the network     *)
(* file after its header, each a pair (source, sink).                      *)
(***************************************************************************)
ChainNetwork == << <<"A", "B">>, <<"B", "C">> >>
TriangleNetwork == << <<"A", "B">>, <<"A", "C">>, <<"B", "C">> >>
Networks == {ChainNetwork, TriangleNetwork}

(***************************************************************************)
(* Helpers on Python lists and the networkx DiGraph (a set of edges).      *)
(***************************************************************************)
InList(x, s) == \E i \in 1..Len(s) : s[i] = x
ListSet(s) == {s[i] : i \in 1..Len(s)}

\* variant: only the two endpoints are looked up (has_node on each)
has_edgeEndpointsOnly(g, u, v) ==
    (\E e \in g : u \in {e[1], e[2]}) /\ (\E e \in g : v \in {e[1], e[2]})

has_edge(g, u, v) == <<u, v>> \in g
out_edges(g, n) == {e \in g : e[1] = n}
neighbors(g, n) == {e[2] : e \in out_edges(g, n)}

\* list.insert(position, x): a position past the end appends
ListInsert(s, position, x) ==
    LET p == IF position > Len(s) THEN Len(s) ELSE position
    IN  SubSeq(s, 1, p) \o <<x>> \o SubSeq(s, p + 1, Len(s))

\* initializeNetwork: the node list in insertion order, and the edge set
RECURSIVE NodesOfLines(_, _)
NodesOfLines(lines, acc) ==
    IF lines = <<>> THEN acc
    ELSE LET sourceIP == Head(lines)[NETWORK_SOURCE_IP_INDEX + 1]
             sinkIP == Head(lines)[NETWORK_SINK_IP_INDEX + 1]
             acc1 == IF InList(sourceIP, acc) THEN acc ELSE Append(acc, sourceIP)
             acc2 == IF InList(sinkIP, acc1) THEN acc1 ELSE Append(acc1, sinkIP)
         IN  NodesOfLines(Tail(lines), acc2)

EdgesOfLines(lines) ==
    {<<lines[i][NETWORK_SOURCE_IP_INDEX + 1], lines[i][NETWORK_SINK_IP_INDEX + 1]>> :
        i \in 1..Len(lines)}

(***************************************************************************)
(* isReachable, calculateNodeInfectionReward, gameOver                     *)
(***************************************************************************)
\* variant: any uninfected node counts as reachable
isReachableIgnoresEdges(node, infected, g) == ~InList(node, infected)

\* variant: the loop over the infected nodes returns after its first node
isReachableFirstInfectedOnly(node, infected, g) ==
    IF InList(node, infected) THEN FALSE
    ELSE Len(infected) > 0 /\ node \in neighbors(g, infected[1])

isReachable(node, infected, g) ==
    IF InList(node, infected) THEN FALSE
    ELSE \E i \in 1..Len(infected) : node \in neighbors(g, infected[i])

calculateNodeInfectionReward(node, infected, g) ==
    IF InList(node, infected) THEN 0
    ELSE 1 + Cardinality({nb \in neighbors(g, node) : ~InList(nb, infected)})

\* the list [int(self.isReachable(node)) for node in self.graph.nodes()]
ReachableList(nodeList, infected, g) ==
    [i \in 1..Len(nodeList) |->
        IF isReachable(nodeList[i], infected, g) THEN 1 ELSE 0]

\* variant: "not all" in place of "not any"
gameOverNotAll(reachable) == \E i \in 1..Len(reachable) : reachable[i] = 0

\* variant: the "not" is missing
gameOverInverted(reachable) == \E i \in 1..Len(reachable) : reachable[i] # 0

gameOver(reachable) == ~(\E i \in 1..Len(reachable) : reachable[i] # 0)

(***************************************************************************)
(* calculateInspectionChance: 2.195 - sigma(.75 n) - sigma(.05 n), in      *)
(* millionths (rounded down), tabulated for queue lengths 0..12.           *)
(***************************************************************************)
InspectionChanceTable ==
    <<1194999, 1003323, 852446, 752919, 692591, 655800, 631544, 613602, 598784, 585530, 573093, 561125, 549467>>
calculateInspectionChance(queueLength) == InspectionChanceTable[queueLength + 1]

\* random.random() lies in [0, 1): "random.random() > chance" can be true
\* only when chance < 1, and can always be false
CanSkipInspection(queueLength) == calculateInspectionChance(queueLength) < 1000000

\* variant: the MEDIUM rewards use floor division
calculateScoreFloorDiv(message, label, infected, g) ==
    LET attackerReward == calculateNodeInfectionReward(message.destination, infected, g)
        defenderReward == Cardinality(neighbors(g, message.destination)) + 1
    IN  IF message.malicious /\ label = HIGH_SUSPICION_LABEL
          THEN <<Some(Whole(-attackerReward)), Whole(defenderReward)>>
        ELSE IF message.malicious /\ label = MEDIUM_SUSPICION_LABEL
          THEN <<Some(Whole((-attackerReward) \div 2)), Whole(defenderReward)>>
        ELSE IF message.malicious
          THEN <<Some(Whole(attackerReward)), Whole(-defenderReward)>>
        ELSE IF label = HIGH_SUSPICION_LABEL
          THEN <<None, Whole(-defenderReward)>>
        ELSE IF label = MEDIUM_SUSPICION_LABEL
          THEN <<None, Whole((-defenderReward) \div 2)>>
        ELSE <<None, Whole(defenderReward)>>

\* variant: a missed malicious message is scored like a caught one
calculateScoreMissedAsCaught(message, label, infected, g) ==
    LET attackerReward == calculateNodeInfectionReward(message.destination, infected, g)
        defenderReward == Cardinality(neighbors(g, message.destination)) + 1
    IN  IF message.malicious /\ label = MEDIUM_SUSPICION_LABEL
          THEN <<Some(HalfOf(-attackerReward)), Whole(defenderReward)>>
        ELSE IF message.malicious
          THEN <<Some(Whole(-attackerReward)), Whole(defenderReward)>>
        ELSE IF label = HIGH_SUSPICION_LABEL
          THEN <<None, Whole(-defenderReward)>>
        ELSE IF label = MEDIUM_SUSPICION_LABEL
          THEN <<None, HalfOf(-defenderReward)>>
        ELSE <<None, Whole(defenderReward)>>

(***************************************************************************)
(* calculateScore: <<attackerReward, defenderReward>>, the attacker's      *)
(* reward being None for a benign message.  Half units.                    *)
(***************************************************************************)
calculateScore(message, label, infected, g) ==
    LET attackerReward == calculateNodeInfectionReward(message.destination, infected, g)
        defenderReward == Cardinality(neighbors(g, message.destination)) + 1
    IN  IF message.malicious /\ label = HIGH_SUSPICION_LABEL
          THEN <<Some(Whole(-attackerReward)), Whole(defenderReward)>>
        ELSE IF message.malicious /\ label = MEDIUM_SUSPICION_LABEL
          THEN <<Some(HalfOf(-attackerReward)), Whole(defenderReward)>>
        ELSE IF message.malicious
          THEN <<Some(Whole(attackerReward)), Whole(-defenderReward)>>
        ELSE IF label = HIGH_SUSPICION_LABEL
          THEN <<None, Whole(-defenderReward)>>
        ELSE IF label = MEDIUM_SUSPICION_LABEL
          THEN <<None, HalfOf(-defenderReward)>>
        ELSE <<None, Whole(defenderReward)>>

(***************************************************************************)
(* quarantineNode, infectNode, updateNetwork                               *)
(***************************************************************************)
\* variant: a HIGH quarantine removes only the edge of the message
quarantineNodeOneEdge(origin, destination, label, g, quarantined) ==
    [graph |-> g \ {<<origin, destination>>},
     quarantinedNodes |-> IF label # HIGH_SUSPICION_LABEL \/ InList(origin, quarantined)
                            THEN quarantined ELSE Append(quarantined, origin),
     raised |-> (<<origin, destination>> \notin g)]

\* variant: a MEDIUM quarantine cuts every outgoing edge of the origin too
quarantineNodeAllEdges(origin, destination, label, g, quarantined) ==
    [graph |-> {e \in g : e[1] # origin},
     quarantinedNodes |-> IF label # HIGH_SUSPICION_LABEL \/ InList(origin, quarantined)
                            THEN quarantined ELSE Append(quarantined, origin),
     raised |-> FALSE]

\* variant: a HIGH quarantine cuts the incoming edges of the origin
quarantineNodeInEdges(origin, destination, label, g, quarantined) ==
    IF label = HIGH_SUSPICION_LABEL
      THEN [graph |-> {e \in g : e[2] # origin},
            quarantinedNodes |-> IF InList(origin, quarantined) THEN quarantined
                                 ELSE Append(quarantined, origin),
            raised |-> FALSE]
      ELSE [graph |-> g \ {<<origin, destination>>},
            quarantinedNodes |-> quarantined,
            raised |-> ~has_edge(g, origin, destination)]

\* graph.remove_edge raises NetworkXError when the edge is absent
quarantineNode(origin, destination, label, g, quarantined) ==
    IF label = HIGH_SUSPICION_LABEL
      THEN [graph |-> g \ out_edges(g, origin),
            quarantinedNodes |-> IF InList(origin, quarantined) THEN quarantined
                                 ELSE Append(quarantined, origin),
            raised |-> FALSE]
      ELSE [graph |-> g \ {<<origin, destination>>},
            quarantinedNodes |-> quarantined,
            raised |-> ~has_edge(g, origin, destination)]

\* variant: the membership test is forgotten
infectNodeUnguarded(destination, infected) == Append(infected, destination)

infectNode(destination, infected) ==
    IF InList(destination, infected) THEN infected ELSE Append(infected, destination)

\* variant: "if" in place of "elif", a malicious message infects its
\* destination whatever the label
updateNetworkInfectsAnyway(message, label, colors, g, infected, quarantined, nodeList) ==
    LET quarantine == label = HIGH_SUSPICION_LABEL \/ label = MEDIUM_SUSPICION_LABEL
        q == quarantineNode(message.origin, message.destination, label, g, quarantined)
        g1 == IF quarantine THEN q.graph ELSE g
        infected1 == IF message.malicious
                       THEN infectNode(message.destination, infected)
                       ELSE infected
    IN  [colorMap |-> [colors EXCEPT ![message.origin] = COLOR_MAP[label]],
         graph |-> g1,
         quarantinedNodes |-> IF quarantine THEN q.quarantinedNodes ELSE quarantined,
         infectedNodes |-> infected1,
         reachableNodes |-> ReachableList(nodeList, infected1, g1),
         raised |-> quarantine /\ q.raised]

\* variant: every label but NONE quarantines
updateNetworkQuarantinesLow(message, label, colors, g, infected, quarantined, nodeList) ==
    LET quarantine == label # NO_SUSPICION_LABEL
        q == quarantineNode(message.origin, message.destination, label, g, quarantined)
        g1 == IF quarantine THEN q.graph ELSE g
        infected1 == IF ~quarantine /\ message.malicious
                       THEN infectNode(message.destination, infected)
                       ELSE infected
    IN  [colorMap |-> [colors EXCEPT ![message.origin] = COLOR_MAP[label]],
         graph |-> g1,
         quarantinedNodes |-> IF quarantine THEN q.quarantinedNodes ELSE quarantined,
         infectedNodes |-> infected1,
         reachableNodes |-> ReachableList(nodeList, infected1, g1),
         raised |-> quarantine /\ q.raised]

\* variant: the label colours the destination of the message
updateNetworkLabelsDestination(message, label, colors, g, infected, quarantined, nodeList) ==
    LET quarantine == label = HIGH_SUSPICION_LABEL \/ label = MEDIUM_SUSPICION_LABEL
        q == quarantineNode(message.origin, message.destination, label, g, quarantined)
        g1 == IF quarantine THEN q.graph ELSE g
        infected1 == IF ~quarantine /\ message.malicious
                       THEN infectNode(message.destination, infected)
                       ELSE infected
    IN  [colorMap |-> [colors EXCEPT ![message.destination] = COLOR_MAP[label]],
         graph |-> g1,
         quarantinedNodes |-> IF quarantine THEN q.quarantinedNodes ELSE quarantined,
         infectedNodes |-> infected1,
         reachableNodes |-> ReachableList(nodeList, infected1, g1),
         raised |-> quarantine /\ q.raised]

\* variant: the flags are recomputed before the quarantine or infection
updateNetworkFlagsFirst(message, label, colors, g, infected, quarantined, nodeList) ==
    LET quarantine == label = HIGH_SUSPICION_LABEL \/ label = MEDIUM_SUSPICION_LABEL
        q == quarantineNode(message.origin, message.destination, label, g, quarantined)
        g1 == IF quarantine THEN q.graph ELSE g
        infected1 == IF ~quarantine /\ message.malicious
                       THEN infectNode(message.destination, infected)
                       ELSE infected
    IN  [colorMap |-> [colors EXCEPT ![message.origin] = COLOR_MAP[label]],
         graph |-> g1,
         quarantinedNodes |-> IF quarantine THEN q.quarantinedNodes ELSE quarantined,
         infectedNodes |-> infected1,
         reachableNodes |-> ReachableList(nodeList, infected, g),
         raised |-> quarantine /\ q.raised]

updateNetwork(message, label, colors, g, infected, quarantined, nodeList) ==
    LET quarantine == label = HIGH_SUSPICION_LABEL \/ label = MEDIUM_SUSPICION_LABEL
        q == quarantineNode(message.origin, message.destination, label, g, quarantined)
        g1 == IF quarantine THEN q.graph ELSE g
        infected1 == IF ~quarantine /\ message.malicious
                       THEN infectNode(message.destination, infected)
                       ELSE infected
    IN  [colorMap |-> [colors EXCEPT ![message.origin] = COLOR_MAP[label]],
         graph |-> g1,
         quarantinedNodes |-> IF quarantine THEN q.quarantinedNodes ELSE quarantined,
         infectedNodes |-> infected1,
         reachableNodes |-> ReachableList(nodeList, infected1, g1),
         raised |-> quarantine /\ q.raised]

(***************************************************************************)
(* The collaborators (Attacker, Defender, Message, the traffic dataset)    *)
(* at their interface.                                                     *)
(***************************************************************************)
\* a background message built from a dataset row with origin and
\* destination overwritten; background traffic is benign
BackgroundMessage(origin, destination) ==
    [origin |-> origin, destination |-> destination, malicious |-> FALSE]

\* the size of the Attacker's action space: one action per node and a
\* last, reserved, no-op action
OUTPUT_SIZE(nodeList) == Len(nodeList) + 1

\* Attacker.getAttack: <<attackMessage, attackIndex>>, the message being
\* None or a malicious message between two nodes of the graph
getAttack(nodeList) ==
    {<<None, i>> : i \in 0..(OUTPUT_SIZE(nodeList) - 1)}
    \cup {<<Some([origin |-> o, destination |-> nodeList[d], malicious |-> TRUE]), d - 1>> :
            o \in ListSet(nodeList), d \in 1..Len(nodeList)}

\* Attacker.addTrainingPoint(state, action, reward): the sample the Attacker
\* records; the state vector it is given is left out of the record
addTrainingPoint(state, action, reward) == [action |-> action, reward |-> reward]

\* variant: the sample is tagged with the index getAttack returned
noAttackTrainingPointReturnedIndex(info, nodeList, index) ==
    addTrainingPoint(info, index, Whole(0))

\* generateTrafficQueues, no attack this round: the sample given to the
\* Attacker, tagged with the last index of its action space, reward 0
noAttackTrainingPoint(info, nodeList, index) ==
    addTrainingPoint(info, OUTPUT_SIZE(nodeList) - 1, Whole(0))

\* Defender.inspect: any of the four labels
inspect(message) == Labels

(***************************************************************************)
(* generateBackgroundTraffic: numMessages draws; a draw whose origin has   *)
(* no outgoing edge is discarded (None).                                   *)
(***************************************************************************)
BackgroundDraws(nodeList, g) ==
    {Some(BackgroundMessage(e[1], e[2])) : e \in g}
    \cup {None : o \in {n \in ListSet(nodeList) : neighbors(g, n) = {}}}

RECURSIVE Flatten(_)
Flatten(ss) == IF ss = <<>> THEN <<>> ELSE Head(ss) \o Flatten(Tail(ss))

generateBackgroundTraffic(nodeList, g) ==
    {Flatten(rows) : rows \in UNION {[1..numMessages -> BackgroundDraws(nodeList, g)] :
                                        numMessages \in 1..MaxBackground}}

\* random.randint(0, len(queue) + 1): both ends are included
InsertPositions(queue) == 0..(Len(queue) + 1)

\* organizedQueues before the attack message is inserted
QueuesOf(traffic, nodeList) ==
    [node \in ListSet(nodeList) |->
        LET ForNode(message) == message.destination = node
        IN  SelectSeq(traffic, ForNode)]

\* trafficInfo = trafficFlow + reachable + infectionScores
TrafficInfoOf(queues, nodeList, infected, g) ==
    [i \in 1..Len(nodeList) |-> Len(queues[nodeList[i]])]
    \o [i \in 1..Len(nodeList) |-> isReachable(nodeList[i], infected, g)]
    \o [i \in 1..Len(nodeList) |-> calculateNodeInfectionReward(nodeList[i], infected, g)]

(***************************************************************************)
(* Position of the two nested loops of runGame over organizedQueues.       *)
(***************************************************************************)
\* the first message at or after queue q, message m; <<0, 0>> when none
RECURSIVE PositionFrom(_, _, _, _)
PositionFrom(queues, nodeList, q, m) ==
    IF q > Len(nodeList) THEN <<0, 0>>
    ELSE IF m <= Len(queues[nodeList[q]]) THEN <<q, m>>
    ELSE PositionFrom(queues, nodeList, q + 1, 1)

(***************************************************************************)
(* State after construction: __init__ calls initializeGame once.           *)
(***************************************************************************)
Init ==
    /\ network \in Networks
    /\ nodes = NodesOfLines(network, <<>>)
    /\ graph = EdgesOfLines(network)
    /\ colorMap = [n \in ListSet(nodes) |-> COLOR_MAP[NO_SUSPICION_LABEL]]
    /\ \E n \in ListSet(nodes) : infectedNodes = <<n>>
    /\ reachableNodes = ReachableList(nodes, infectedNodes, graph)
    /\ quarantinedNodes = <<>>
    /\ roundNumber = 0
    /\ lastAttackerScore = 0
    /\ organizedQueues = [n \in ListSet(nodes) |-> <<>>]
    /\ attackIndex = 0
    /\ attackMessage = None
    /\ pc = "constructed"
    /\ qi = 0
    /\ mi = 0
    /\ loopLocals = None
    /\ attackerSamples = <<>>
    /\ defenderSamples = <<>>
    /\ call = None

(***************************************************************************)
(* initializeGame, called at the start of every episode; runGame is        *)
(* entered right after it.                                                 *)
(***************************************************************************)
\* variant: the graph of the previous game is kept (the network file is
\* read into a fresh graph only when there is none yet)
InitializeGameKeepsGraph ==
    /\ pc \in {"constructed", "finished"}
    /\ nodes' = NodesOfLines(network, <<>>)
    /\ graph' = graph
    /\ colorMap' = [n \in ListSet(nodes') |-> COLOR_MAP[NO_SUSPICION_LABEL]]
    /\ \E n \in ListSet(nodes') : infectedNodes' = <<n>>
    /\ reachableNodes' = ReachableList(nodes', infectedNodes', graph')
    /\ quarantinedNodes' = <<>>
    /\ roundNumber' = 0
    /\ pc' = "loop"
    /\ UNCHANGED <<network, lastAttackerScore, organizedQueues, attackIndex,
                   attackMessage, qi, mi, loopLocals, attackerSamples,
                   defenderSamples, call>>

InitializeGame ==
    /\ pc \in {"constructed", "finished"}
    /\ nodes' = NodesOfLines(network, <<>>)
    /\ graph' = EdgesOfLines(network)
    /\ colorMap' = [n \in ListSet(nodes') |-> COLOR_MAP[NO_SUSPICION_LABEL]]
    /\ \E n \in ListSet(nodes') : infectedNodes' = <<n>>
    /\ reachableNodes' = ReachableList(nodes', infectedNodes', graph')
    /\ quarantinedNodes' = <<>>
    /\ roundNumber' = 0
    /\ pc' = "loop"
    /\ UNCHANGED <<network, lastAttackerScore, organizedQueues, attackIndex,
                   attackMessage, qi, mi, loopLocals, attackerSamples,
                   defenderSamples, call>>

(***************************************************************************)
(* runGame: the loop test is true; the round starts (roundNumber += 1,     *)
(* generateTrafficQueues, lastAttackerScore = 0).                          *)
(***************************************************************************)
\* variant: the assignment at the start of the round is missing
roundStartScoreKept(previous) == previous

\* self.lastAttackerScore = 0, at the start of every round
roundStartScore(previous) == 0

\* the round, roundNumber becoming counted
BeginRound(counted) ==
    /\ pc = "loop"
    /\ ~gameOver(reachableNodes)
    /\ roundNumber' = counted
    /\ \E traffic \in generateBackgroundTraffic(nodes, graph) :
       \E attack \in getAttack(nodes) :
          LET queues == QueuesOf(traffic, nodes)
              info == TrafficInfoOf(queues, nodes, infectedNodes, graph)
          IN  /\ attackMessage' = attack[1]
              /\ attackIndex' = attack[2]
              /\ IF attack[1] # None
                   THEN LET destination == attack[1][1].destination
                        IN  /\ \E position \in InsertPositions(queues[destination]) :
                                 organizedQueues' =
                                    [queues EXCEPT ![destination] =
                                        ListInsert(queues[destination], position, attack[1][1])]
                            /\ attackerSamples' = <<>>
                   ELSE /\ organizedQueues' = queues
                        /\ attackerSamples' =
                              <<noAttackTrainingPoint(info, nodes, attack[2])>>
    /\ lastAttackerScore' = roundStartScore(lastAttackerScore)
    /\ defenderSamples' = <<>>
    /\ loopLocals' = None
    /\ LET first == PositionFrom(organizedQueues', nodes, 1, 1)
       IN  /\ qi' = first[1]
           /\ mi' = first[2]
           /\ pc' = IF first = <<0, 0>> THEN "display" ELSE "messages"
    /\ UNCHANGED <<network, nodes, graph, colorMap, infectedNodes,
                   quarantinedNodes, reachableNodes, call>>

\* rounds are counted up to MaxRounds
StartRound ==
    /\ roundNumber < MaxRounds
    /\ BeginRound(roundNumber + 1)

(***************************************************************************)
(* runGame: one iteration of the inner loop, for the message at (qi, mi).  *)
(***************************************************************************)
\* After the last message control is at the end of the loop body (the
\* post-round display).
Advance ==
    LET next == PositionFrom(organizedQueues, nodes, qi, mi + 1)
    IN  /\ qi' = next[1]
        /\ mi' = next[2]
        /\ pc' = IF next = <<0, 0>> THEN "display" ELSE "messages"
        /\ UNCHANGED <<organizedQueues, attackIndex>>

\* the edge of the message is gone: continue
DropMessage ==
    /\ pc = "messages"
    /\ LET message == organizedQueues[nodes[qi]][mi]
       IN  /\ ~has_edge(graph, message.origin, message.destination)
           /\ loopLocals' = Some([message |-> message, delivered |-> FALSE,
                                  skipped |-> FALSE, inspectCalls |-> 0,
                                  suspicionLabel |-> None,
                                  attackerReward |-> None, defenderReward |-> None])
    /\ defenderSamples' = <<>>
    /\ Advance
    /\ UNCHANGED <<network, nodes, graph, colorMap, infectedNodes,
                   quarantinedNodes, reachableNodes, roundNumber,
                   lastAttackerScore, attackMessage, attackerSamples, call>>

\* variant: the two statements are exchanged, the score is computed on the
\* updated network
updateThenScore(message, label, colors, g, infected, quarantined, nodeList) ==
    LET update == updateNetwork(message, label, colors, g, infected, quarantined, nodeList)
    IN  [score |-> calculateScore(message, label, update.infectedNodes, update.graph),
         update |-> update]

\* attackerReward, defenderReward = self.calculateScore(message, suspicionLabel)
\* self.updateNetwork(message, suspicionLabel)
scoreThenUpdate(message, label, colors, g, infected, quarantined, nodeList) ==
    [score |-> calculateScore(message, label, infected, g),
     update |-> updateNetwork(message, label, colors, g, infected, quarantined, nodeList)]

\* variant: the "if not skipped" is forgotten
defenderTrainingPointsAlways(skipped, message, suspicionLabel, defenderReward) ==
    <<[message |-> message, label |-> suspicionLabel, reward |-> defenderReward]>>

\* the samples the Defender is given for one delivered message:
\* "if not skipped: self.defender.addTrainingPoint(...)"
defenderTrainingPoints(skipped, message, suspicionLabel, defenderReward) ==
    IF ~skipped
      THEN <<[message |-> message, label |-> suspicionLabel, reward |-> defenderReward]>>
      ELSE <<>>

\* the message is delivered with the given outcome of the inspection draw;
\* inspectCalls counts the calls of Defender.inspect made for it
Deliver(skipped, inspectCalls, suspicionLabel) ==
    LET queue == organizedQueues[nodes[qi]]
        message == queue[mi]
        step == scoreThenUpdate(message, suspicionLabel, colorMap, graph,
                                infectedNodes, quarantinedNodes, nodes)
        score == step.score
        update == step.update
    IN  /\ colorMap' = update.colorMap
        /\ graph' = update.graph
        /\ quarantinedNodes' = update.quarantinedNodes
        /\ infectedNodes' = update.infectedNodes
        /\ reachableNodes' = update.reachableNodes
        /\ defenderSamples' =
              defenderTrainingPoints(skipped, message, suspicionLabel, score[2])
        /\ IF message.malicious
             THEN /\ attackerSamples' =
                        Append(attackerSamples,
                               addTrainingPoint(<<>>, attackIndex, score[1][1]))
                  /\ lastAttackerScore' = score[1][1]
             ELSE UNCHANGED <<attackerSamples, lastAttackerScore>>
        /\ loopLocals' = Some([message |-> message, delivered |-> TRUE,
                               skipped |-> skipped, inspectCalls |-> inspectCalls,
                               suspicionLabel |-> Some(suspicionLabel),
                               attackerReward |-> score[1],
                               defenderReward |-> Some(score[2])])
        /\ IF update.raised
             THEN /\ pc' = "crashed"
                  /\ UNCHANGED <<qi, mi, organizedQueues, attackIndex>>
             ELSE Advance

SkipInspection ==
    /\ pc = "messages"
    /\ LET queue == organizedQueues[nodes[qi]]
       IN  /\ has_edge(graph, queue[mi].origin, queue[mi].destination)
           /\ CanSkipInspection(Len(queue))
    /\ Deliver(TRUE, 0, NO_SUSPICION_LABEL)
    /\ UNCHANGED <<network, nodes, roundNumber, attackMessage, call>>

InspectMessage ==
    /\ pc = "messages"
    /\ LET message == organizedQueues[nodes[qi]][mi]
       IN  /\ has_edge(graph, message.origin, message.destination)
           /\ \E suspicionLabel \in inspect(message) : Deliver(FALSE, 1, suspicionLabel)
    /\ UNCHANGED <<network, nodes, roundNumber, attackMessage, call>>

(***************************************************************************)
(* runGame: the end of the loop body (the post-round display); control     *)
(* goes back to the loop test.  The locals of the round are dead there     *)
(* (the next round assigns them before any use) and are cleared, and the   *)
(* records of the samples given to the collaborators start afresh.         *)
(***************************************************************************)
EndRound ==
    /\ pc = "display"
    /\ pc' = "loop"
    /\ organizedQueues' = [n \in ListSet(nodes) |-> <<>>]
    /\ attackIndex' = 0
    /\ qi' = 0
    /\ mi' = 0
    /\ loopLocals' = None
    /\ attackerSamples' = <<>>
    /\ defenderSamples' = <<>>
    /\ UNCHANGED <<network, nodes, graph, colorMap, infectedNodes,
                   quarantinedNodes, reachableNodes, roundNumber,
                   lastAttackerScore, attackMessage, call>>

(***************************************************************************)
(* runGame: the loop test is false; runGame returns.                       *)
(***************************************************************************)
EndGame ==
    /\ pc = "loop"
    /\ gameOver(reachableNodes)
    /\ pc' = "finished"
    /\ UNCHANGED <<network, nodes, graph, colorMap, infectedNodes,
                   quarantinedNodes, reachableNodes, roundNumber,
                   lastAttackerScore, organizedQueues, attackIndex,
                   attackMessage, qi, mi, loopLocals, attackerSamples,
                   defenderSamples, call>>

Next ==
    \/ InitializeGame
    \/ StartRound
    \/ DropMessage
    \/ SkipInspection
    \/ InspectMessage
    \/ EndRound
    \/ EndGame

Spec == Init /\ [][Next]_vars

(***************************************************************************)
(* Vocabulary of the properties.                                           *)
(***************************************************************************)
InGame == pc \in {"loop", "messages", "display"}
\* the message the inner loop is at
CurrentMessage == organizedQueues[nodes[qi]][mi]
\* the latest iteration of the inner loop and what it did
Processed == loopLocals # None
Last == loopLocals[1]
Delivered == Processed /\ Last.delivered
DeliveredWith(labels) == Delivered /\ Last.suspicionLabel[1] \in labels
\* the same, of the iteration a step performs
DeliveredNow(labels) ==
    /\ pc = "messages"
    /\ loopLocals' # None
    /\ loopLocals'[1].delivered
    /\ loopLocals'[1].suspicionLabel[1] \in labels
Occurrences(x, s) == Cardinality({i \in 1..Len(s) : s[i] = x})
\* reachability, infection potential and successor count as section 4 of
\* the specification words them, on a set of infected nodes and an edge set
SpecReachable(n, infectedSet, edges) ==
    n \notin infectedSet /\ \E i \in infectedSet : <<i, n>> \in edges
SpecPotential(n, infectedSet, edges) ==
    IF n \in infectedSet THEN 0
    ELSE 1 + Cardinality({e \in edges : e[1] = n /\ e[2] \notin infectedSet})
SpecSuccessors(n, edges) == Cardinality({e \in edges : e[1] = n})
AnyReachable ==
    \E n \in ListSet(nodes) : SpecReachable(n, ListSet(infectedNodes), graph)

(***************************************************************************)
(* C1: within one game infectedSet and quarantinedSet never lose a node,   *)
(* and infecting an already infected node leaves infectedSet unchanged.    *)
(***************************************************************************)
C1_SetsOnlyGrow ==
    [][InGame =>
        /\ ListSet(infectedNodes) \subseteq ListSet(infectedNodes')
        /\ ListSet(quarantinedNodes) \subseteq ListSet(quarantinedNodes')
        /\ (/\ DeliveredNow({NO_SUSPICION_LABEL, LOW_SUSPICION_LABEL})
            /\ CurrentMessage.malicious
            /\ InList(CurrentMessage.destination, infectedNodes))
           => infectedNodes' = infectedNodes]_vars

\* a missed attack on an already infected node, in a game with two infected
\* nodes and a quarantined one
C1_Witness ==
    /\ DeliveredWith({NO_SUSPICION_LABEL, LOW_SUSPICION_LABEL})
    /\ Last.message.malicious
    /\ Last.attackerReward = Some(0)
    /\ Len(infectedNodes) >= 2
    /\ Len(quarantinedNodes) >= 1

(***************************************************************************)
(* C2: after a HIGH quarantine the origin has no outgoing edge and is in   *)
(* quarantinedSet exactly once.                                            *)
(***************************************************************************)
C2_HighQuarantineComplete ==
    DeliveredWith({HIGH_SUSPICION_LABEL}) =>
        /\ \A e \in graph : e[1] # Last.message.origin
        /\ Occurrences(Last.message.origin, quarantinedNodes) = 1

\* node A of the triangle network, which starts with two outgoing edges, has
\* been quarantined at HIGH by the first message of the first round, and both
\* edges are gone
C2_Witness ==
    /\ network = TriangleNetwork
    /\ DeliveredWith({HIGH_SUSPICION_LABEL})
    /\ Last.message.origin = "A"
    /\ roundNumber = 1
    /\ pc = "messages"
    /\ LET first == PositionFrom(organizedQueues, nodes, 1, 1)
       IN  <<qi, mi>> = PositionFrom(organizedQueues, nodes, first[1], first[2] + 1)
    /\ graph = EdgesOfLines(network) \ {<<"A", "B">>, <<"A", "C">>}

(***************************************************************************)
(* C3: a MEDIUM quarantine of an existing edge removes exactly that edge   *)
(* and leaves quarantinedSet alone.                                        *)
(***************************************************************************)
C3_MediumQuarantineLocal ==
    [][DeliveredNow({MEDIUM_SUSPICION_LABEL}) =>
        /\ <<CurrentMessage.origin, CurrentMessage.destination>> \in graph
        /\ graph' = graph \ {<<CurrentMessage.origin, CurrentMessage.destination>>}
        /\ quarantinedNodes' = quarantinedNodes]_vars

\* after a MEDIUM quarantine of one edge of X, X still has an outgoing edge
C3_Witness ==
    /\ DeliveredWith({MEDIUM_SUSPICION_LABEL})
    /\ <<Last.message.origin, Last.message.destination>> \notin graph
    /\ \E e \in graph : e[1] = Last.message.origin

(***************************************************************************)
(* C4: the loop test before each round is the only way the game ends: at   *)
(* the test a round starts if and only if some node is reachable and the   *)
(* game ends if and only if none is; a round under way is never ended      *)
(* before its last queued message, reachable node or not.                  *)
(***************************************************************************)
C4_TerminalCheck ==
    [][/\ pc = "loop" =>
            /\ (roundNumber' = roundNumber + 1 /\ pc' \in {"messages", "display"}) <=> AnyReachable
            /\ pc' = "finished" <=> ~AnyReachable
       /\ pc = "messages" =>
            /\ roundNumber' = roundNumber
            /\ organizedQueues' = organizedQueues
            /\ pc' \in {"messages", "display"}
            /\ pc' = "display" <=> PositionFrom(organizedQueues, nodes, qi, mi + 1) = <<0, 0>>
            /\ pc' = "messages" =>
                 <<qi', mi'>> = PositionFrom(organizedQueues, nodes, qi, mi + 1)
       /\ pc = "display" => (pc' = "loop" /\ roundNumber' = roundNumber)
       /\ pc' = "finished" => pc = "loop"
       /\ (pc = "loop" /\ roundNumber < MaxRounds) => (ENABLED StartRound <=> AnyReachable)
       /\ pc = "loop" => (ENABLED EndGame <=> ~AnyReachable)
       /\ pc = "messages" => ENABLED (DropMessage \/ SkipInspection \/ InspectMessage)
       /\ pc = "display" => ENABLED EndRound]_vars

\* part-way through a round no node is reachable any more, and messages
\* are still queued
C4_Witness ==
    /\ pc = "messages"
    /\ ~AnyReachable
    /\ Delivered

(***************************************************************************)
(* C5: calculateScore follows the reward table of section 4.5, with A the  *)
(* infection potential of the destination and D its successor count plus   *)
(* one, both before the update; the Attacker is given a sample for a       *)
(* malicious message only.  (Stored rewards are in half units.)            *)
(***************************************************************************)
C5_RewardTable ==
    [][DeliveredNow(Labels) =>
        LET m == CurrentMessage
            label == loopLocals'[1].suspicionLabel[1]
            A == SpecPotential(m.destination, ListSet(infectedNodes), graph)
            D == SpecSuccessors(m.destination, graph) + 1
            attackerReward == loopLocals'[1].attackerReward
            defenderReward == loopLocals'[1].defenderReward
            caught == label \in {MEDIUM_SUSPICION_LABEL, HIGH_SUSPICION_LABEL}
        IN  /\ (m.malicious /\ label = HIGH_SUSPICION_LABEL) =>
                 attackerReward = <<-(2 * A)>> /\ defenderReward = <<2 * D>>
            /\ (m.malicious /\ label = MEDIUM_SUSPICION_LABEL) =>
                 attackerReward = <<-A>> /\ defenderReward = <<2 * D>>
            /\ (m.malicious /\ ~caught) =>
                 attackerReward = <<2 * A>> /\ defenderReward = <<-(2 * D)>>
            /\ (~m.malicious /\ label = HIGH_SUSPICION_LABEL) =>
                 attackerReward = None /\ defenderReward = <<-(2 * D)>>
            /\ (~m.malicious /\ label = MEDIUM_SUSPICION_LABEL) =>
                 attackerReward = None /\ defenderReward = <<-D>>
            /\ (~m.malicious /\ ~caught) =>
                 attackerReward = None /\ defenderReward = <<2 * D>>
            /\ ~m.malicious => attackerSamples' = attackerSamples
            /\ m.malicious =>
                 /\ Len(attackerSamples') = Len(attackerSamples) + 1
                 /\ <<attackerSamples'[Len(attackerSamples')].reward>> = attackerReward]_vars

\* a malicious message into a node of potential 1 was labelled MEDIUM: the
\* attacker's reward is -1/2
C5_Witness ==
    /\ DeliveredWith({MEDIUM_SUSPICION_LABEL})
    /\ Last.message.malicious
    /\ Last.attackerReward = <<-1>>

(***************************************************************************)
(* C6: a malicious message labelled HIGH gives the attacker a reward <= 0  *)
(* and the defender a reward > 0; a missed malicious message (NONE or LOW, *)
(* skipped or not) gives the defender a reward < 0, and the attacker a     *)
(* reward > 0 when the destination's infection potential was > 0.          *)
(***************************************************************************)
C6_RewardSigns ==
    [][(DeliveredNow(Labels) /\ CurrentMessage.malicious) =>
        LET label == loopLocals'[1].suspicionLabel[1]
            attackerReward == loopLocals'[1].attackerReward[1]
            defenderReward == loopLocals'[1].defenderReward[1]
            potential == SpecPotential(CurrentMessage.destination,
                                       ListSet(infectedNodes), graph)
        IN  /\ label = HIGH_SUSPICION_LABEL =>
                 attackerReward <= 0 /\ defenderReward > 0
            /\ label \in {NO_SUSPICION_LABEL, LOW_SUSPICION_LABEL} =>
                 /\ defenderReward < 0
                 /\ potential > 0 => attackerReward > 0]_vars

\* a malicious message skipped inspection and infected a fresh node
C6_Witness ==
    /\ Delivered
    /\ Last.skipped
    /\ Last.message.malicious
    /\ Last.attackerReward[1] > 0
    /\ Last.defenderReward[1] < 0

(***************************************************************************)
(* C7: in a round in which the Attacker returned no attack message, the    *)
(* Attacker is given exactly one training sample, of reward 0 and tagged   *)
(* with the last index of its action space.                                *)
(***************************************************************************)
C7_NoAttackSample ==
    (pc \in {"messages", "display"} /\ attackMessage = None) =>
        attackerSamples = <<[action |-> Len(nodes), reward |-> 0]>>

\* a round without attack is over, its background message was delivered,
\* and getAttack had returned another index than the reserved one
C7_Witness ==
    /\ pc = "display"
    /\ attackMessage = None
    /\ Delivered
    /\ attackIndex # Len(nodes)
    /\ Len(attackerSamples) = 1

(***************************************************************************)
(* C8: when the initially infected node has no outgoing edge, no node is   *)
(* reachable, no round beyond round 1 is ever started and infectedSet      *)
(* holds the initial node only, up to and including the end of the game.   *)
(***************************************************************************)
C8_IsolatedStart ==
    (pc # "constructed" /\ \A e \in EdgesOfLines(network) : e[1] # infectedNodes[1]) =>
        /\ ~AnyReachable
        /\ roundNumber <= 1
        /\ infectedNodes = <<infectedNodes[1]>>
        /\ pc \in {"loop", "finished"}
        /\ pc = "loop" => ENABLED EndGame

\* the game started from the sink C of the chain has ended
C8_Witness ==
    /\ pc = "finished"
    /\ network = ChainNetwork
    /\ infectedNodes = <<"C">>

(***************************************************************************)
(* C9: on the chain A->B, B->C with A the initial infection, B is          *)
(* reachable and C is not; when a malicious A->B message is inspected and  *)
(* labelled HIGH while B is uninfected, every outgoing edge of A is gone,  *)
(* B stays uninfected, the attacker's reward is minus the infection        *)
(* potential of B, the defender's is the successor count of B plus one,    *)
(* and the loop test that follows the round ends the game.                 *)
(***************************************************************************)
C9_AttackMessage == [origin |-> "A", destination |-> "B", malicious |-> TRUE]

C9_Caught ==
    /\ network = ChainNetwork
    /\ infectedNodes = <<"A">>
    /\ attackMessage = <<C9_AttackMessage>>
    /\ lastAttackerScore < 0
    /\ colorMap["A"] = COLOR_MAP[HIGH_SUSPICION_LABEL]

C9_ChainScenario ==
    [][(network = ChainNetwork /\ infectedNodes = <<"A">>) =>
        /\ (pc = "loop" /\ roundNumber = 0) =>
             /\ nodes = <<"A", "B", "C">>
             /\ SpecReachable("B", {"A"}, graph)
             /\ ~SpecReachable("C", {"A"}, graph)
             /\ reachableNodes = <<0, 1, 0>>
        /\ (/\ DeliveredNow({HIGH_SUSPICION_LABEL})
            /\ ~loopLocals'[1].skipped
            /\ CurrentMessage = C9_AttackMessage) =>
             /\ \A e \in graph' : e[1] # "A"
             /\ ~InList("B", infectedNodes')
             /\ loopLocals'[1].attackerReward =
                   <<-(2 * SpecPotential("B", {"A"}, graph))>>
             /\ loopLocals'[1].defenderReward =
                   <<2 * (SpecSuccessors("B", graph) + 1)>>
             /\ graph = EdgesOfLines(ChainNetwork) =>
                   /\ loopLocals'[1].attackerReward = <<-4>>
                   /\ loopLocals'[1].defenderReward = <<4>>
             /\ C9_Caught'
        /\ (pc \in {"messages", "display"} /\ C9_Caught) => C9_Caught'
        /\ (pc = "loop" /\ C9_Caught) => (pc' = "finished" /\ ENABLED EndGame)]_vars

\* the game of the scenario has ended after its first round
C9_Witness ==
    /\ C9_Caught
    /\ pc = "finished"
    /\ roundNumber = 1
    /\ lastAttackerScore = -4

(***************************************************************************)
(* C10: a queued message whose edge is gone from the graph when its turn   *)
(* comes is dropped: it is neither inspected nor scored, no training       *)
(* sample is emitted, and graph, infectedSet, quarantinedSet, labels and   *)
(* reachability flags stay as they are.                                    *)
(***************************************************************************)
C10_StaleMessageDropped ==
    [][(/\ pc = "messages"
        /\ <<CurrentMessage.origin, CurrentMessage.destination>> \notin graph) =>
        /\ loopLocals' = <<[message |-> CurrentMessage, delivered |-> FALSE,
                            skipped |-> FALSE, inspectCalls |-> 0,
                            suspicionLabel |-> None,
                            attackerReward |-> None, defenderReward |-> None]>>
        /\ defenderSamples' = <<>>
        /\ UNCHANGED <<attackerSamples, lastAttackerScore, graph,
                       infectedNodes, quarantinedNodes, colorMap,
                       reachableNodes>>]_vars

\* a background message, drawn along an edge at the start of the round, was
\* dropped: a quarantine of the same round had removed its edge
C10_Witness ==
    /\ Processed
    /\ ~Last.delivered
    /\ ~Last.message.malicious
    /\ Len(quarantinedNodes) >= 1

(***************************************************************************)
(* C12: during a game edges are removed only: the edge set stays within    *)
(* the edge set of the game's start (the network definition) and only      *)
(* shrinks, and the node list does not change; a message delivered with    *)
(* label NONE or LOW, skipped or inspected, removes no edge and changes    *)
(* no membership of quarantinedSet.                                        *)
(***************************************************************************)
C12_EdgesOnlyRemoved ==
    [][InGame =>
        /\ graph \subseteq EdgesOfLines(network)
        /\ graph' \subseteq graph
        /\ nodes' = nodes
        /\ ListSet(nodes') = {e[1] : e \in EdgesOfLines(network)}
                               \cup {e[2] : e \in EdgesOfLines(network)}
        /\ DeliveredNow({NO_SUSPICION_LABEL, LOW_SUSPICION_LABEL}) =>
             /\ graph' = graph
             /\ ListSet(quarantinedNodes') = ListSet(quarantinedNodes)]_vars

\* a message labelled LOW by the Defender was delivered in a game that has
\* lost an edge and has a quarantined node, and its edge is still there
C12_Witness ==
    /\ DeliveredWith({LOW_SUSPICION_LABEL})
    /\ ~Last.skipped
    /\ <<Last.message.origin, Last.message.destination>> \in graph
    /\ graph # EdgesOfLines(network)
    /\ quarantinedNodes # <<>>

(***************************************************************************)
(* C13: in every reachable state isReachable(node) is true exactly for the *)
(* nodes that are not infected and have an edge from some infected node    *)
(* in the current graph; an infected node is never reachable.              *)
(***************************************************************************)
C13_IsReachableIff ==
    \A n \in ListSet(nodes) :
        /\ isReachable(n, infectedNodes, graph)
              <=> SpecReachable(n, ListSet(infectedNodes), graph)
        /\ InList(n, infectedNodes) => ~isReachable(n, infectedNodes, graph)

\* two nodes are infected; a node is reachable through the node infected
\* second only, and the node infected second, which has an edge from the
\* first, is not reachable
C13_Witness ==
    /\ InGame
    /\ Len(infectedNodes) = 2
    /\ \E n \in ListSet(nodes) :
          /\ isReachable(n, infectedNodes, graph)
          /\ <<infectedNodes[1], n>> \notin graph
          /\ <<infectedNodes[2], n>> \in graph
    /\ <<infectedNodes[1], infectedNodes[2]>> \in graph

(***************************************************************************)
(* C14: for a delivered message, a skipped inspection forces the label     *)
(* NONE, makes no call of the Defender's inspect and gives the Defender no *)
(* training sample; an inspected message gives the Defender exactly one    *)
(* sample, with the label inspect returned and the defenderReward,         *)
(* whatever the label.                                                     *)
(***************************************************************************)
C14_DefenderSamples ==
    Delivered =>
        /\ Last.skipped =>
             /\ Last.suspicionLabel = Some(NO_SUSPICION_LABEL)
             /\ Last.inspectCalls = 0
             /\ defenderSamples = <<>>
        /\ ~Last.skipped =>
             /\ Last.inspectCalls = 1
             /\ defenderSamples = <<[message |-> Last.message,
                                     label |-> Last.suspicionLabel[1],
                                     reward |-> Last.defenderReward[1]]>>

\* the attack message went uninspected in a queue of two
C14_Witness ==
    /\ Delivered
    /\ Last.skipped
    /\ Last.message.malicious
    /\ Last.defenderReward[1] < 0
    /\ defenderSamples = <<>>

(***************************************************************************)
(* C15: a message delivered with label MEDIUM or HIGH has the quarantine   *)
(* of its origin and destination at that label applied, and does not       *)
(* infect its destination even when malicious; delivered with NONE or LOW  *)
(* (skipped included) a malicious message leaves its destination in        *)
(* infectedSet and a benign one leaves infectedSet as it is; in every case *)
(* the label of the origin becomes the message's label.                    *)
(***************************************************************************)
C15_UpdateByLabel ==
    [][DeliveredNow(Labels) =>
        LET m == CurrentMessage
            L == loopLocals'[1].suspicionLabel[1]
        IN  /\ L = HIGH_SUSPICION_LABEL =>
                 /\ graph' = {e \in graph : e[1] # m.origin}
                 /\ ListSet(quarantinedNodes') = ListSet(quarantinedNodes) \cup {m.origin}
                 /\ infectedNodes' = infectedNodes
            /\ L = MEDIUM_SUSPICION_LABEL =>
                 /\ graph' = graph \ {<<m.origin, m.destination>>}
                 /\ quarantinedNodes' = quarantinedNodes
                 /\ infectedNodes' = infectedNodes
            /\ (L \in {NO_SUSPICION_LABEL, LOW_SUSPICION_LABEL} /\ m.malicious) =>
                 ListSet(infectedNodes') = ListSet(infectedNodes) \cup {m.destination}
            /\ (L \in {NO_SUSPICION_LABEL, LOW_SUSPICION_LABEL} /\ ~m.malicious) =>
                 infectedNodes' = infectedNodes
            /\ colorMap' = [colorMap EXCEPT ![m.origin] = COLOR_MAP[L]]
            /\ pc' # "crashed"]_vars

\* a malicious message from an infected node into an uninfected one was
\* labelled MEDIUM: its edge is gone, its destination is not infected and
\* its origin is shown at MEDIUM
C15_Witness ==
    /\ DeliveredWith({MEDIUM_SUSPICION_LABEL})
    /\ Last.message.malicious
    /\ InList(Last.message.origin, infectedNodes)
    /\ ~InList(Last.message.destination, infectedNodes)
    /\ <<Last.message.origin, Last.message.destination>> \notin graph
    /\ colorMap[Last.message.origin] = COLOR_MAP[MEDIUM_SUSPICION_LABEL]
    /\ colorMap[Last.message.destination] # COLOR_MAP[MEDIUM_SUSPICION_LABEL]

(***************************************************************************)
(* C17: the rewards of a delivered message are computed before its update  *)
(* of the network: their sizes are the infection potential and the         *)
(* successor count (plus one) of the destination in the state before the   *)
(* message's quarantine or infection; a missed malicious message into an   *)
(* uninfected destination earns the attacker that earlier potential, which *)
(* is positive, while the potential after the infection is 0.              *)
(***************************************************************************)
C17_ScoreBeforeUpdate ==
    [][DeliveredNow(Labels) =>
        LET m == CurrentMessage
            label == loopLocals'[1].suspicionLabel[1]
            before == SpecPotential(m.destination, ListSet(infectedNodes), graph)
            after == SpecPotential(m.destination, ListSet(infectedNodes'), graph')
            successors == SpecSuccessors(m.destination, graph) + 1
            attackerReward == loopLocals'[1].attackerReward
            defenderReward == loopLocals'[1].defenderReward[1]
        IN  /\ m.malicious =>
                 attackerReward[1] \in {2 * before, -before, -(2 * before)}
            /\ defenderReward \in {2 * successors, -successors, -(2 * successors)}
            /\ (/\ m.malicious
                /\ label \in {NO_SUSPICION_LABEL, LOW_SUSPICION_LABEL}
                /\ ~InList(m.destination, infectedNodes)) =>
                 /\ before > 0
                 /\ after = 0
                 /\ attackerReward = Some(2 * before)
                 /\ lastAttackerScore' = 2 * before]_vars

\* a malicious message labelled LOW by the Defender has infected a node
\* that had an uninfected successor: the attacker's reward is 2, the
\* potential of the node before it was infected
C17_Witness ==
    /\ DeliveredWith({LOW_SUSPICION_LABEL})
    /\ ~Last.skipped
    /\ Last.message.malicious
    /\ Last.attackerReward = Some(Whole(2))
    /\ lastAttackerScore = Whole(2)
    /\ SpecPotential(Last.message.destination, ListSet(infectedNodes), graph) = 0

(***************************************************************************)
(* C19: after initializeGame, at the first start and after a completed     *)
(* game alike, the state is fresh: the graph has every edge of the network *)
(* definition again, exactly one node of the graph is infected, no node is *)
(* quarantined, every node's label is NONE, roundNumber is 0 and the       *)
(* reachability flags are isReachable of that state.                       *)
(***************************************************************************)
C19_FreshGame ==
    (pc = "constructed" \/ (pc = "loop" /\ roundNumber = 0)) =>
        /\ graph = EdgesOfLines(network)
        /\ ListSet(nodes) = {e[1] : e \in graph} \cup {e[2] : e \in graph}
        /\ Len(infectedNodes) = 1
        /\ infectedNodes[1] \in ListSet(nodes)
        /\ quarantinedNodes = <<>>
        /\ \A n \in ListSet(nodes) : colorMap[n] = COLOR_MAP[NO_SUSPICION_LABEL]
        /\ DOMAIN colorMap = ListSet(nodes)
        /\ Len(reachableNodes) = Len(nodes)
        /\ \A i \in 1..Len(nodes) :
              reachableNodes[i] =
                 IF SpecReachable(nodes[i], {infectedNodes[1]}, EdgesOfLines(network))
                   THEN 1 ELSE 0

\* a new game is about to start after a game whose last attack was caught,
\* which ended it with an edge removed
C19_Witness ==
    /\ pc = "loop"
    /\ roundNumber = 0
    /\ lastAttackerScore < 0
    /\ attackMessage # None
    /\ graph = EdgesOfLines(network)

(***************************************************************************)
(* C21: in every state of a game a node of quarantinedSet has no outgoing  *)
(* edge; so a queued message whose origin is in quarantinedSet when its    *)
(* turn comes is dropped: it is not inspected, not scored, gives no        *)
(* training sample and infects nothing.                                    *)
(***************************************************************************)
C21_QuarantinedSendNothing ==
    [][InGame =>
        /\ \A n \in ListSet(quarantinedNodes) : out_edges(graph, n) = {}
        /\ \A n \in ListSet(quarantinedNodes') : out_edges(graph', n) = {}
        /\ (pc = "messages" /\ InList(CurrentMessage.origin, quarantinedNodes)) =>
             /\ loopLocals' # None
             /\ loopLocals'[1].message = CurrentMessage
             /\ ~loopLocals'[1].delivered
             /\ loopLocals'[1].inspectCalls = 0
             /\ loopLocals'[1].attackerReward = None
             /\ loopLocals'[1].defenderReward = None
             /\ defenderSamples' = <<>>
             /\ UNCHANGED <<attackerSamples, lastAttackerScore, infectedNodes,
                            graph, quarantinedNodes, colorMap>>]_vars

\* the attack message of the second round came from an infected node that
\* had been quarantined in the first round, along an edge of the network
\* definition into an uninfected node, and was dropped
C21_Witness ==
    /\ roundNumber = 2
    /\ Processed
    /\ ~Last.delivered
    /\ Last.message.malicious
    /\ InList(Last.message.origin, quarantinedNodes)
    /\ InList(Last.message.origin, infectedNodes)
    /\ ~InList(Last.message.destination, infectedNodes)
    /\ <<Last.message.origin, Last.message.destination>> \in EdgesOfLines(network)

(***************************************************************************)
(* C22: at the loop test of every round, and at the end of every round,    *)
(* the stored reachability flags are those of the current graph and        *)
(* infectedSet, node by node, also after a round in which every queued     *)
(* message was dropped or none was queued.                                 *)
(***************************************************************************)
C22_FlagsNeverStale ==
    (pc \in {"loop", "display", "finished"}) =>
        /\ Len(reachableNodes) = Len(nodes)
        /\ \A i \in 1..Len(nodes) :
              (reachableNodes[i] = 1) <=>
                 SpecReachable(nodes[i], ListSet(infectedNodes), graph)
        /\ \A i \in 1..Len(nodes) : reachableNodes[i] \in {0, 1}
        /\ gameOver(reachableNodes) <=> ~AnyReachable

\* the second round is over; its only queued message was dropped; the
\* first round had left two infected nodes and a removed edge, and a node
\* is still reachable
C22_Witness ==
    /\ pc = "display"
    /\ roundNumber = 2
    /\ Processed
    /\ ~Last.delivered
    /\ \A n \in ListSet(nodes) :
          organizedQueues[n] \in {<<>>, <<Last.message>>}
    /\ Len(infectedNodes) = 2
    /\ graph # EdgesOfLines(network)
    /\ AnyReachable

(***************************************************************************)
(* C23: background traffic being benign, the Attacker is given at most one *)
(* training sample in a round: the no-op sample when it abstained, or,     *)
(* when its attack message is delivered, one sample with the round's       *)
(* action index and that message's attackerReward; an attack message       *)
(* dropped as stale and a benign message give it none; lastAttackerScore   *)
(* is 0 as long as no malicious message was delivered in the round, up to  *)
(* the round's end.                                                        *)
(***************************************************************************)
C23_AttackerSamplesPerRound ==
    [][(pc \in {"messages", "display"}) =>
        /\ Len(attackerSamples) <= 1
        /\ attackMessage = None =>
             /\ attackerSamples = <<[action |-> OUTPUT_SIZE(nodes) - 1, reward |-> 0]>>
             /\ lastAttackerScore = 0
        /\ (attackMessage # None /\ attackerSamples = <<>>) => lastAttackerScore = 0
        /\ (attackMessage # None /\ attackerSamples # <<>>) =>
             attackerSamples = <<[action |-> attackIndex, reward |-> lastAttackerScore]>>
        /\ (DeliveredNow(Labels) /\ CurrentMessage.malicious) =>
             /\ CurrentMessage = attackMessage[1]
             /\ attackerSamples = <<>>
             /\ attackerSamples' = <<[action |-> attackIndex,
                                      reward |-> loopLocals'[1].attackerReward[1]]>>
             /\ lastAttackerScore' = loopLocals'[1].attackerReward[1]
        /\ (pc = "messages" /\ ~(DeliveredNow(Labels) /\ CurrentMessage.malicious)) =>
             UNCHANGED <<attackerSamples, lastAttackerScore>>]_vars

\* the round is over in which the attack message, queued along an edge of
\* the graph behind a background message, was dropped as stale: the
\* Attacker got no sample and lastAttackerScore is 0, although the round
\* before had brought it a reward
C23_Witness ==
    /\ pc = "display"
    /\ roundNumber = 2
    /\ attackMessage # None
    /\ Processed
    /\ Last.message = attackMessage[1]
    /\ ~Last.delivered
    /\ <<Last.message.origin, Last.message.destination>> \in EdgesOfLines(network)
    /\ Len(organizedQueues[Last.message.destination]) = 2
    /\ attackerSamples = <<>>
    /\ lastAttackerScore = 0
    /\ Len(infectedNodes) = 2

(***************************************************************************)
(* quarantineNode examined on its own: called once, with every origin,     *)
(* destination and quarantine label, on every graph a game can have made   *)
(* of the network (any subset of its edges) and every quarantinedNodes     *)
(* list of nodes without outgoing edge.                                    *)
(***************************************************************************)
\* the lists without repetition over a set of nodes
ListsOver(set) ==
    {l \in UNION {[1..k -> set] : k \in 0..Cardinality(set)} :
        \A i, j \in 1..Len(l) : l[i] = l[j] => i = j}

\* the fields a direct call does not touch
IdleGameFields ==
    /\ colorMap = [n \in ListSet(nodes) |-> COLOR_MAP[NO_SUSPICION_LABEL]]
    /\ roundNumber = 0
    /\ lastAttackerScore = 0
    /\ organizedQueues = [n \in ListSet(nodes) |-> <<>>]
    /\ attackIndex = 0
    /\ attackMessage = None
    /\ qi = 0
    /\ mi = 0
    /\ loopLocals = None
    /\ attackerSamples = <<>>
    /\ defenderSamples = <<>>
    /\ call = None

QuarantineInit ==
    /\ network \in Networks
    /\ nodes = NodesOfLines(network, <<>>)
    /\ graph \in SUBSET EdgesOfLines(network)
    /\ quarantinedNodes \in ListsOver({n \in ListSet(nodes) : out_edges(graph, n) = {}})
    /\ infectedNodes = <<nodes[1]>>
    /\ reachableNodes = ReachableList(nodes, infectedNodes, graph)
    /\ pc = "call"
    /\ IdleGameFields

QuarantineCall ==
    /\ pc = "call"
    /\ \E origin \in ListSet(nodes), destination \in ListSet(nodes),
          label \in {MEDIUM_SUSPICION_LABEL, HIGH_SUSPICION_LABEL} :
          LET q == quarantineNode(origin, destination, label, graph, quarantinedNodes)
          IN  /\ graph' = q.graph
              /\ quarantinedNodes' = q.quarantinedNodes
              /\ pc' = IF q.raised THEN "crashed" ELSE "returned"
              /\ call' = Some([op |-> "quarantineNode", origin |-> origin,
                               destination |-> destination, label |-> label,
                               graph |-> graph, quarantinedNodes |-> quarantinedNodes])
    /\ UNCHANGED <<network, nodes, colorMap, infectedNodes, reachableNodes,
                   roundNumber, lastAttackerScore, organizedQueues, attackIndex,
                   attackMessage, qi, mi, loopLocals, attackerSamples,
                   defenderSamples>>

QuarantineSpec == QuarantineInit /\ [][QuarantineCall]_vars

(***************************************************************************)
(* C11: a MEDIUM quarantine of an edge that is not in the graph does not   *)
(* fail and leaves graph and quarantinedSet as they are; a HIGH quarantine *)
(* of a node without outgoing edge does not fail either.                   *)
(***************************************************************************)
C11_AbsentEdgeQuarantineNoOp ==
    (call # None /\ call[1].op = "quarantineNode") =>
        LET c == call[1]
        IN  /\ (/\ c.label = MEDIUM_SUSPICION_LABEL
                /\ <<c.origin, c.destination>> \notin c.graph) =>
                 /\ pc = "returned"
                 /\ graph = c.graph
                 /\ quarantinedNodes = c.quarantinedNodes
            /\ (/\ c.label = HIGH_SUSPICION_LABEL
                /\ \A e \in c.graph : e[1] # c.origin) =>
                 pc = "returned"

(***************************************************************************)
(* generateTrafficQueues examined on its own: called once, on every graph  *)
(* a game can have made of the network and every first infected node; the  *)
(* queues before the insertion and the position drawn are kept in call.    *)
(***************************************************************************)
TrafficInit ==
    /\ network \in Networks
    /\ nodes = NodesOfLines(network, <<>>)
    /\ graph \in SUBSET EdgesOfLines(network)
    /\ quarantinedNodes = <<>>
    /\ infectedNodes \in {<<n>> : n \in ListSet(nodes)}
    /\ reachableNodes = ReachableList(nodes, infectedNodes, graph)
    /\ pc = "call"
    /\ IdleGameFields

GenerateTrafficQueuesCall ==
    /\ pc = "call"
    /\ \E traffic \in generateBackgroundTraffic(nodes, graph) :
       \E attack \in getAttack(nodes) :
          LET queues == QueuesOf(traffic, nodes)
              info == TrafficInfoOf(queues, nodes, infectedNodes, graph)
          IN  /\ attackMessage' = attack[1]
              /\ attackIndex' = attack[2]
              /\ IF attack[1] # None
                   THEN LET destination == attack[1][1].destination
                        IN  /\ \E position \in InsertPositions(queues[destination]) :
                                 /\ organizedQueues' =
                                       [queues EXCEPT ![destination] =
                                           ListInsert(queues[destination], position, attack[1][1])]
                                 /\ call' = Some([op |-> "generateTrafficQueues",
                                                  queues |-> queues,
                                                  position |-> Some(position)])
                            /\ attackerSamples' = <<>>
                   ELSE /\ organizedQueues' = queues
                        /\ call' = Some([op |-> "generateTrafficQueues",
                                         queues |-> queues, position |-> None])
                        /\ attackerSamples' =
                              <<noAttackTrainingPoint(info, nodes, attack[2])>>
    /\ pc' = "returned"
    /\ UNCHANGED <<network, nodes, graph, colorMap, infectedNodes,
                   quarantinedNodes, reachableNodes, roundNumber,
                   lastAttackerScore, qi, mi, loopLocals, defenderSamples>>

TrafficSpec == TrafficInit /\ [][GenerateTrafficQueuesCall]_vars

\* s with its element at index i (from 1) taken out
Without(s, i) == SubSeq(s, 1, i - 1) \o SubSeq(s, i + 1, Len(s))

(***************************************************************************)
(* C16: an attack message is inserted into the queue of its destination    *)
(* at a position drawn from 0..queueLength, queueLength being the number   *)
(* of background messages in that queue; afterwards the queue holds the    *)
(* background messages in their order and the attack message once, and     *)
(* the other queues are as they were.                                      *)
(***************************************************************************)
C16_AttackInsertion ==
    (/\ call # None
     /\ call[1].op = "generateTrafficQueues"
     /\ attackMessage # None) =>
        LET destination == attackMessage[1].destination
            before == call[1].queues[destination]
            after == organizedQueues[destination]
        IN  /\ call[1].position # None
            /\ call[1].position[1] \in 0..Len(before)
            /\ Len(after) = Len(before) + 1
            /\ \E i \in 1..Len(after) :
                  /\ after[i] = attackMessage[1]
                  /\ Without(after, i) = before
            /\ Occurrences(attackMessage[1], after) = 1
            /\ \A n \in ListSet(nodes) \ {destination} :
                  organizedQueues[n] = call[1].queues[n]

(***************************************************************************)
(* The engine with rounds without end: runGame has no cap on its rounds,   *)
(* so here a round can always start while a node is reachable; the round   *)
(* counter stops counting at MaxRounds, which keeps the states finite.     *)
(* The program is sequential and never waits: a step that can be taken is  *)
(* taken.  The games are those of the chain network.                       *)
(***************************************************************************)
LiveInit == Init /\ network = ChainNetwork

StartRoundUncapped ==
    BeginRound(IF roundNumber < MaxRounds THEN roundNumber + 1 ELSE roundNumber)

LiveNext ==
    \/ InitializeGame
    \/ StartRoundUncapped
    \/ DropMessage
    \/ SkipInspection
    \/ InspectMessage
    \/ EndRound
    \/ EndGame

LiveSpec == LiveInit /\ [][LiveNext]_vars /\ WF_vars(LiveNext)

(***************************************************************************)
(* C18 as stated: whatever the Attacker and the Defender do, every game    *)
(* eventually reaches a state in which no node is reachable and its round  *)
(* loop stops.                                                             *)
(***************************************************************************)
C18_EveryGameTerminates ==
    (pc = "loop") ~> (pc = "finished" /\ ~AnyReachable)

(***************************************************************************)
(* C18, amended: every round that is started comes to its end and back to  *)
(* the loop test, and the game ends from the first loop test at which no   *)
(* node is reachable (and ends only then); a game in which a node stays    *)
(* reachable goes on without end.                                          *)
(***************************************************************************)
C18_TerminatesOnceUnreachable ==
    /\ (pc \in {"messages", "display"}) ~> (pc = "loop")
    /\ (pc = "loop" /\ ~AnyReachable) ~> (pc = "finished" /\ ~AnyReachable)
    /\ [][pc' = "finished" => (pc = "loop" /\ ~AnyReachable)]_vars

\* a game has ended after at least one round, with two infected nodes
C18_Witness ==
    /\ pc = "finished"
    /\ ~AnyReachable
    /\ roundNumber >= 1
    /\ Len(infectedNodes) >= 2
    /\ quarantinedNodes # <<>>

====
